---- MODULE Spec2Model ----
(***************************************************************************)
(* Model of the MCP2515 high level analyzer (HighLevelAnalyzer.py).       *)
(*                                                                         *)
(* The analyzer object holds one field, self.frames.  Its decode() method  *)
(* is called once per input frame of the SPI analyzer: 'enable' (start     *)
(* marker), 'result' (one byte exchange), 'disable' (end marker), or any   *)
(* other type.  On 'disable' it runs _decode_frames over self.frames.      *)
(***************************************************************************)
EXTENDS Integers, Sequences, FiniteSets, TLC

VARIABLES
    frames,      \* self.frames: the buffered 'result' frames
    ret,         \* outcome of the last decode() call: None, a list, or a raise
    lastOp,      \* history: frame.type of the last decode() call ("init" before any)
    lastMarker,  \* history: the last marker delivered: "none", "enable", "disable"
    prevMarker,  \* history: the marker delivered before lastMarker ("none" when none)
    txn,         \* history: the 'result' frames delivered since the last 'enable'
                 \*          (since construction when there has been none)
    stale,       \* history: 'result' frames had been delivered, and not yet been
                 \*          cleared by an 'enable', when the last 'enable' arrived
    violation,   \* history: a frame of another type was rejected after the last
                 \*          'enable' and before any 'disable' that followed it
    emissions    \* history: the 'disable' calls since the last 'enable' (since
                 \*          construction when none) that returned a non-empty
                 \*          list, counted up to 2

vars == <<frames, ret, lastOp, lastMarker, prevMarker, txn, stale, violation, emissions>>

----------------------------------------------------------------------------
(* Bounds and input alphabets *)

\* Longest buffer the model builds.
MaxFrames == 5

\* The (mosi, miso) byte pairs a 'result' frame may carry.  The mosi bytes
\* cover three instructions that are also in-range addresses (0x02, 0x03,
\* 0x05) and a byte that is neither an instruction nor an in-range address
\* (0x80).  All six instruction codes head a transaction under SpecPayload
\* and SpecResolve, all 256 bytes are the first byte under SpecClassify and
\* the second byte under SpecResolve.
BytePairs ==
    { <<2, 17>>,     \* 0x02 WRITE        / 0x11
      <<3, 34>>,     \* 0x03 READ         / 0x22
      <<5, 51>>,     \* 0x05 BIT_MODIFY   / 0x33
      <<128, 2>> }   \* 0x80              / 0x02

AllBytes == 0 .. 255

\* miso bytes paired with the first byte under SpecClassify
FirstMiso == {0, 3, 255}

\* in-range address bytes that follow the instruction under SpecPayload
PayloadAddresses == {0, 46, 127}

----------------------------------------------------------------------------
(* Constant data of the program *)

Instructions ==
    [ RESET       |-> 192,
      READ        |-> 3,
      WRITE       |-> 2,
      READ_STATUS |-> 160,
      RX_STATUS   |-> 176,
      BIT_MODIFY  |-> 5 ]

REGISTER_MAP ==
  << <<"RXF0SIDH", "RXF3SIDH", "RXM0SIDH", "TXB0CTRL", "TXB1CTRL", "TXB2CTRL", "RXB0CTRL", "RXB1CTRL">>,
     <<"RXF0SIDL", "RXF3SIDL", "RXM0SIDL", "TXB0SIDH", "TXB1SIDH", "TXB2SIDH", "RXB0SIDH", "RXB1SIDH">>,
     <<"RXF0EID8", "RXF3EID8", "RXM0EID8", "TXB0SIDL", "TXB1SIDL", "TXB2SIDL", "RXB0SIDL", "RXB1SIDL">>,
     <<"RXF0EID0", "RXF3EID0", "RXM0EID0", "TXB0EID8", "TXB1EID8", "TXB2EID8", "RXB0EID8", "RXB1EID8">>,
     <<"RXF1SIDH", "RXF4SIDH", "RXM1SIDH", "TXB0EID0", "TXB1EID0", "TXB2EID0", "RXB0EID0", "RXB1EID0">>,
     <<"RXF1SIDL", "RXF4SIDL", "RXM1SIDL", "TXB0DLC", "TXB1DLC", "TXB2DLC", "RXB0DLC", "RXB1DLC">>,
     <<"RXF1EID8", "RXF4EID8", "RXM1EID8", "TXB0D0", "TXB1D0", "TXB2D0", "RXB0D0", "RXB1D0">>,
     <<"RXF1EID0", "RXF4EID0", "RXM1EID0", "TXB0D1", "TXB1D1", "TXB2D1", "RXB0D1", "RXB1D1">>,
     <<"RXF2SIDH", "RXF5SIDH", "CNF3", "TXB0D2", "TXB1D2", "TXB2D2", "RXB0D2", "RXB1D2">>,
     <<"RXF2SIDL", "RXF5SIDL", "CNF2", "TXB0D3", "TXB1D3", "TXB2D3", "RXB0D3", "RXB1D3">>,
     <<"RXF2EID8", "RXF5EID8", "CNF1", "TXB0D4", "TXB1D4", "TXB2D4", "RXB0D4", "RXB1D4">>,
     <<"RXF2EID0", "RXF5EID0", "CANINTE", "TXB0D5", "TXB1D5", "TXB2D5", "RXB0D5", "RXB1D5">>,
     <<"BFPCTRL", "TEC", "CANINTF", "TXB0D6", "TXB1D6", "TXB2D6", "RXB0D6", "RXB1D6">>,
     <<"TXRTSCTRL", "REC", "EFLG", "TXB0D7", "TXB1D7", "TXB2D7", "RXB0D7", "RXB1D7">>,
     <<"CANSTAT", "CANSTAT", "CANSTAT", "CANSTAT", "CANSTAT", "CANSTAT", "CANSTAT", "CANSTAT">>,
     <<"CANCTRL", "CANCTRL", "CANCTRL", "CANCTRL", "CANCTRL", "CANCTRL", "CANCTRL", "CANCTRL">> >>

----------------------------------------------------------------------------
(* Outcomes of a call *)

\* decode() fell through to 'return None'
ReturnNone == [status |-> "none", out |-> <<>>, exc |-> ""]

\* a list of AnalyzerFrames was returned
Return(output) == [status |-> "list", out |-> output, exc |-> ""]

RaiseKeepsOutput(exc, output) == [status |-> "raise", out |-> output, exc |-> exc]

\* An exception leaves _decode_frames and decode: the local list 'output'
\* built so far is never returned.
Raise(exc, output) == [status |-> "raise", out |-> <<>>, exc |-> exc]

\* AnalyzerFrame(type, start_time, end_time, data)
AnalyzerFrame(type, start_time, end_time, data) ==
    [type |-> type, start_time |-> start_time, end_time |-> end_time, data |-> data]

----------------------------------------------------------------------------
(* Pure functions *)

NoInstruction == "ValueError"

InstructionsByValuePartialMatch(value) ==
    LET m == {n \in DOMAIN Instructions :
                 \/ Instructions[n] = value
                 \/ Instructions[n] = (value \div 16) * 16}
    IN  IF m = {} THEN NoInstruction ELSE CHOOSE n \in m : TRUE

\* Instructions(value): the member whose value is exactly 'value'; the
\* IntEnum constructor raises ValueError when there is none.
InstructionsByValue(value) ==
    LET m == {n \in DOMAIN Instructions : Instructions[n] = value}
    IN  IF m = {} THEN NoInstruction ELSE CHOOSE n \in m : TRUE

\* lo and hi of get_register_name
RegisterLo(register) == register % 16
RegisterHi(register) == (register \div 16) % 16

\* REGISTER_MAP[lo][hi] raises IndexError unless both indexes exist
\* (Python lists are 0-based, TLA+ tuples 1-based).
RegisterIndexExists(register) ==
    /\ RegisterLo(register) + 1 \in DOMAIN REGISTER_MAP
    /\ RegisterHi(register) + 1 \in DOMAIN REGISTER_MAP[RegisterLo(register) + 1]

get_register_nameLowMask(register) ==
    REGISTER_MAP[(register % 8) + 1][RegisterHi(register) + 1]

get_register_name(register) ==
    REGISTER_MAP[RegisterLo(register) + 1][RegisterHi(register) + 1]

HexDigits == <<"0", "1", "2", "3", "4", "5", "6", "7",
               "8", "9", "A", "B", "C", "D", "E", "F">>

\* f'0x{byte:02X}' as a sequence of characters
HexByte(byte) ==
    <<"0", "x", HexDigits[(byte \div 16) + 1], HexDigits[(byte % 16) + 1]>>

RECURSIVE data_to_str(_)
\* ' '.join(f'0x{byte:02X}' for byte in data)
data_to_str(data) ==
    IF data = <<>> THEN <<>>
    ELSE IF Len(data) = 1 THEN HexByte(data[1])
    ELSE HexByte(data[1]) \o <<" ">> \o data_to_str(Tail(data))

RECURSIVE Extend(_, _)
\* for frame in data_frames: acc.extend(frame.data[key])
Extend(data_frames, key) ==
    IF data_frames = <<>> THEN <<>>
    ELSE data_frames[1].data[key] \o Extend(Tail(data_frames), key)

----------------------------------------------------------------------------
(* _decode_frames, block by block *)

InstructionSegmentOffByOne(fr) ==
    IF Len(fr) > 1
    THEN <<AnalyzerFrame("instruction", fr[1].start_time, fr[1].end_time,
                         [instruction |-> InstructionsByValue(fr[1].data.mosi[1])])>>
    ELSE <<>>

\* if len(frames) >= 1: the 'instruction' frame (when the byte is an instruction)
InstructionSegment(fr) ==
    IF Len(fr) >= 1
    THEN <<AnalyzerFrame("instruction", fr[1].start_time, fr[1].end_time,
                         [instruction |-> InstructionsByValue(fr[1].data.mosi[1])])>>
    ELSE <<>>

ControlRegSegmentGated(fr) ==
    IF Len(fr) >= 2 /\ InstructionsByValue(fr[1].data.mosi[1]) \in {"WRITE", "READ", "BIT_MODIFY"}
    THEN <<AnalyzerFrame("control_reg", fr[2].start_time, fr[2].end_time,
                         [control_reg |-> get_register_name(fr[2].data.mosi[1])])>>
    ELSE <<>>

\* if len(frames) >= 2: the 'control_reg' frame (when the lookup succeeds)
ControlRegSegment(fr) ==
    IF Len(fr) >= 2
    THEN <<AnalyzerFrame("control_reg", fr[2].start_time, fr[2].end_time,
                         [control_reg |-> get_register_name(fr[2].data.mosi[1])])>>
    ELSE <<>>

\* if len(frames) >= 3 and instruction == BIT_MODIFY: the 'mask' frame
MaskSegment(fr, instruction) ==
    IF Len(fr) >= 3 /\ instruction = "BIT_MODIFY"
    THEN <<AnalyzerFrame("mask", fr[3].start_time, fr[3].end_time,
                         [mask |-> HexByte(fr[3].data.mosi[1])])>>
    ELSE <<>>

DataFramesWithMask(fr, instruction) ==
    IF Len(fr) >= 3 THEN SubSeq(fr, 3, Len(fr)) ELSE <<>>

\* data_frames = frames[3:] for BIT_MODIFY, frames[2:] otherwise; the block
\* is entered only when len(frames) >= 3
DataFrames(fr, instruction) ==
    IF Len(fr) >= 3
    THEN IF instruction = "BIT_MODIFY"
         THEN SubSeq(fr, 4, Len(fr))
         ELSE SubSeq(fr, 3, Len(fr))
    ELSE <<>>

DataBytesAlwaysMosi(data_frames, instruction) ==
    Extend(data_frames, "mosi")

\* miso and mosi are both collected; READ selects miso, all others mosi
DataBytes(data_frames, instruction) ==
    IF instruction = "READ"
    THEN Extend(data_frames, "miso")
    ELSE Extend(data_frames, "mosi")

DataSegmentPerFrame(data_frames, instruction) ==
    [i \in 1 .. Len(data_frames) |->
        AnalyzerFrame("data", data_frames[i].start_time, data_frames[i].end_time,
                      [data |-> data_to_str(DataBytes(<<data_frames[i]>>, instruction))])]

DataSegmentEndsAtFirst(data_frames, instruction) ==
    IF Len(data_frames) > 0
    THEN <<AnalyzerFrame("data",
                         data_frames[1].start_time,
                         data_frames[1].end_time,
                         [data |-> data_to_str(DataBytes(data_frames, instruction))])>>
    ELSE <<>>

\* if len(data_frames) > 0: the one 'data' frame
DataSegment(data_frames, instruction) ==
    IF Len(data_frames) > 0
    THEN <<AnalyzerFrame("data",
                         data_frames[1].start_time,
                         data_frames[Len(data_frames)].end_time,
                         [data |-> data_to_str(DataBytes(data_frames, instruction))])>>
    ELSE <<>>

decode_framesMaskLast(fr) ==
    LET instruction == IF Len(fr) >= 1
                       THEN InstructionsByValue(fr[1].data.mosi[1])
                       ELSE NoInstruction
    IN  IF Len(fr) >= 1 /\ instruction = NoInstruction
        THEN Raise("ValueError", <<>>)
        ELSE IF Len(fr) >= 2 /\ ~RegisterIndexExists(fr[2].data.mosi[1])
        THEN Raise("IndexError", InstructionSegment(fr))
        ELSE Return(InstructionSegment(fr)
                    \o ControlRegSegment(fr)
                    \o DataSegment(DataFrames(fr, instruction), instruction)
                    \o MaskSegment(fr, instruction))

\* _decode_frames(frames).  The two places that can raise are the enum
\* constructor (ValueError) and the table lookup (IndexError); each is
\* reached in source order, with the output built so far.
decode_frames(fr) ==
    LET instruction == IF Len(fr) >= 1
                       THEN InstructionsByValue(fr[1].data.mosi[1])
                       ELSE NoInstruction
    IN  IF Len(fr) >= 1 /\ instruction = NoInstruction
        THEN Raise("ValueError", <<>>)
        ELSE IF Len(fr) >= 2 /\ ~RegisterIndexExists(fr[2].data.mosi[1])
        THEN Raise("IndexError", InstructionSegment(fr))
        ELSE Return(InstructionSegment(fr)
                    \o ControlRegSegment(fr)
                    \o MaskSegment(fr, instruction)
                    \o DataSegment(DataFrames(fr, instruction), instruction))

----------------------------------------------------------------------------
(* decode(frame): one action per frame.type *)

\* The next 'result' frame of the capture: times do not decrease along the
\* frames delivered since the last 'enable'.
NextTime == IF txn = <<>> THEN 0 ELSE txn[Len(txn)].end_time + 1

ResultFrame(pair) ==
    AnalyzerFrame("result", NextTime, NextTime + 1,
                  [mosi |-> <<pair[1]>>, miso |-> <<pair[2]>>])

\* history only: one more 'disable' that returned a non-empty list
CountEmission(outcome) ==
    IF outcome.status = "list" /\ outcome.out # <<>> /\ emissions < 2
    THEN emissions + 1
    ELSE emissions

Init ==
    /\ frames = <<>>
    /\ ret = ReturnNone
    /\ lastOp = "init"
    /\ lastMarker = "none"
    /\ prevMarker = "none"
    /\ txn = <<>>
    /\ stale = FALSE
    /\ violation = FALSE
    /\ emissions = 0

EnableKeepsFrames ==
    /\ frames' = frames
    /\ ret' = ReturnNone
    /\ lastOp' = "enable"
    /\ lastMarker' = "enable"
    /\ prevMarker' = lastMarker
    /\ txn' = <<>>
    /\ stale' = (txn # <<>>)
    /\ violation' = FALSE
    /\ emissions' = 0

\* frame.type == 'enable'
EnableMarker ==
    /\ frames' = <<>>
    /\ ret' = ReturnNone
    /\ lastOp' = "enable"
    /\ lastMarker' = "enable"
    /\ prevMarker' = lastMarker
    /\ txn' = <<>>
    /\ stale' = (txn # <<>>)
    /\ violation' = FALSE
    /\ emissions' = 0

ResultRejectedWhenIdle(pair) ==
    /\ Len(txn) < MaxFrames
    /\ IF lastMarker = "enable"
       THEN /\ frames' = Append(frames, ResultFrame(pair))
            /\ ret' = ReturnNone
       ELSE /\ frames' = frames
            /\ ret' = Raise("RuntimeError", <<>>)
    /\ lastOp' = "result"
    /\ txn' = Append(txn, ResultFrame(pair))
    /\ UNCHANGED <<lastMarker, prevMarker, stale, violation, emissions>>

ResultPrepends(pair) ==
    /\ Len(txn) < MaxFrames
    /\ frames' = <<ResultFrame(pair)>> \o frames
    /\ ret' = ReturnNone
    /\ lastOp' = "result"
    /\ txn' = Append(txn, ResultFrame(pair))
    /\ UNCHANGED <<lastMarker, prevMarker, stale, violation, emissions>>

ResultDecodesEagerly(pair) ==
    /\ Len(txn) < MaxFrames
    /\ frames' = Append(frames, ResultFrame(pair))
    /\ ret' = IF decode_frames(Append(frames, ResultFrame(pair))).status = "raise"
              THEN decode_frames(Append(frames, ResultFrame(pair)))
              ELSE ReturnNone
    /\ lastOp' = "result"
    /\ txn' = Append(txn, ResultFrame(pair))
    /\ UNCHANGED <<lastMarker, prevMarker, stale, violation, emissions>>

\* frame.type == 'result'
Result(pair) ==
    /\ Len(txn) < MaxFrames
    /\ frames' = Append(frames, ResultFrame(pair))
    /\ ret' = ReturnNone
    /\ lastOp' = "result"
    /\ txn' = Append(txn, ResultFrame(pair))
    /\ UNCHANGED <<lastMarker, prevMarker, stale, violation, emissions>>

DisableDiscardsFrames ==
    /\ ret' = decode_frames(frames)
    /\ frames' = <<>>
    /\ lastOp' = "disable"
    /\ lastMarker' = "disable"
    /\ prevMarker' = lastMarker
    /\ emissions' = CountEmission(decode_frames(frames))
    /\ UNCHANGED <<txn, stale, violation>>

DisableClearsOnFailure ==
    /\ ret' = decode_frames(frames)
    /\ frames' = IF decode_frames(frames).status = "raise" THEN <<>> ELSE frames
    /\ lastOp' = "disable"
    /\ lastMarker' = "disable"
    /\ prevMarker' = lastMarker
    /\ emissions' = CountEmission(decode_frames(frames))
    /\ UNCHANGED <<txn, stale, violation>>

\* frame.type == 'disable'
DisableMarker ==
    /\ ret' = decode_frames(frames)
    /\ lastOp' = "disable"
    /\ lastMarker' = "disable"
    /\ prevMarker' = lastMarker
    /\ emissions' = CountEmission(decode_frames(frames))
    /\ UNCHANGED <<frames, txn, stale, violation>>

OtherFrameIgnored ==
    /\ ret' = ReturnNone
    /\ lastOp' = "other"
    /\ violation' = (violation \/ lastMarker = "enable")
    /\ UNCHANGED <<frames, lastMarker, prevMarker, txn, stale, emissions>>

OtherFrameClearsBuffer ==
    /\ ret' = Raise("RuntimeError", <<>>)
    /\ frames' = <<>>
    /\ lastOp' = "other"
    /\ violation' = (violation \/ lastMarker = "enable")
    /\ UNCHANGED <<lastMarker, prevMarker, txn, stale, emissions>>

\* any other frame.type
OtherFrame ==
    /\ ret' = Raise("RuntimeError", <<>>)
    /\ lastOp' = "other"
    /\ violation' = (violation \/ lastMarker = "enable")
    /\ UNCHANGED <<frames, lastMarker, prevMarker, txn, stale, emissions>>

Next ==
    \/ EnableMarker
    \/ \E pair \in BytePairs : Result(pair)
    \/ DisableMarker
    \/ OtherFrame

Spec == Init /\ [][Next]_vars

----------------------------------------------------------------------------
(* Specifications over the pure function _decode_frames *)

FrameAt(time, mosi, miso) ==
    AnalyzerFrame("result", time, time + 1, [mosi |-> <<mosi>>, miso |-> <<miso>>])

\* Every first byte, after 'enable' and one 'result'; then 'disable'.
InitClassify ==
    /\ frames \in {<<FrameAt(0, b, m)>> : b \in AllBytes, m \in FirstMiso}
    /\ ret = ReturnNone
    /\ lastOp = "result"
    /\ lastMarker = "enable"
    /\ prevMarker = "none"
    /\ txn = frames
    /\ stale = FALSE
    /\ violation = FALSE
    /\ emissions = 0

NextClassify == DisableMarker

SpecClassify == InitClassify /\ [][NextClassify]_vars

\* Every instruction code followed by an in-range address, after 'enable'
\* and two 'result' frames; then more 'result' frames and 'disable'.
InitPayload ==
    /\ frames \in {<<FrameAt(0, Instructions[n], 170), FrameAt(2, a, 187)>> :
                      n \in DOMAIN Instructions, a \in PayloadAddresses}
    /\ ret = ReturnNone
    /\ lastOp = "result"
    /\ lastMarker = "enable"
    /\ prevMarker = "none"
    /\ txn = frames
    /\ stale = FALSE
    /\ violation = FALSE
    /\ emissions = 0

NextPayload ==
    \/ \E pair \in BytePairs : Result(pair)
    \/ DisableMarker

SpecPayload == InitPayload /\ [][NextPayload]_vars

\* Every instruction code followed by every second byte, after 'enable' and
\* two 'result' frames; then 'disable'.
InitResolve ==
    /\ frames \in {<<FrameAt(0, Instructions[n], 170), FrameAt(2, a, 187)>> :
                      n \in DOMAIN Instructions, a \in AllBytes}
    /\ ret = ReturnNone
    /\ lastOp = "result"
    /\ lastMarker = "enable"
    /\ prevMarker = "none"
    /\ txn = frames
    /\ stale = FALSE
    /\ violation = FALSE
    /\ emissions = 0

NextResolve == DisableMarker

SpecResolve == InitResolve /\ [][NextResolve]_vars

----------------------------------------------------------------------------
(* Vocabulary of the properties *)

Mosi(f) == f.data.mosi[1]
Miso(f) == f.data.miso[1]

\* the types of the emitted frames, in order
Kinds(output) == [i \in 1 .. Len(output) |-> output[i].type]

\* the six instruction codes, as the specification lists them
InstructionCodes == {192, 3, 2, 160, 176, 5}

\* an address byte whose high nibble is one of the 8 populated columns
AddressInRange(a) == a \div 16 < 8

\* The state right after an end marker that closes a transaction: the marker
\* before it was a start marker, so txn is the transaction's events.
TransactionEnded == lastOp = "disable" /\ prevMarker = "enable"

\* The state right after any end marker.
EndMarkerProcessed == lastOp = "disable"

\* mosi (or miso) bytes of events from..Len(events), in arrival order
MosiFrom(events, from) == [i \in 1 .. (Len(events) - from + 1) |-> Mosi(events[i + from - 1])]
MisoFrom(events, from) == [i \in 1 .. (Len(events) - from + 1) |-> Miso(events[i + from - 1])]

\* str is "0xHH 0xHH ... 0xHH" in upper-case hex
IsHexList(str) ==
    \/ str = <<>>
    \/ /\ Len(str) % 5 = 4
       /\ \A i \in 1 .. Len(str) :
             CASE i % 5 = 1 -> str[i] = "0"
               [] i % 5 = 2 -> str[i] = "x"
               [] i % 5 = 0 -> str[i] = " "
               [] OTHER     -> \E d \in 1 .. 16 : HexDigits[d] = str[i]

HexValue(c) == (CHOOSE d \in 1 .. 16 : HexDigits[d] = c) - 1

\* the bytes a hex list spells
ParseHexList(str) ==
    [k \in 1 .. ((Len(str) + 1) \div 5) |->
        16 * HexValue(str[5 * (k - 1) + 3]) + HexValue(str[5 * (k - 1) + 4])]

----------------------------------------------------------------------------
(* C1 *)

\* C1: a transaction of 2 + k events (k >= 1) whose first mosi byte is a
\* valid instruction other than BIT_MODIFY and whose second mosi byte is an
\* in-range address emits exactly [instruction, control_reg, data]; data
\* spells exactly the k bytes of events 3..n in arrival order, the miso
\* bytes for READ and the mosi bytes for the other instructions.
C1_NonBitModifyPayload ==
    (/\ TransactionEnded
     /\ Len(txn) >= 3
     /\ Mosi(txn[1]) \in InstructionCodes \ {5}
     /\ AddressInRange(Mosi(txn[2])))
    => /\ ret.status = "list"
       /\ Kinds(ret.out) = <<"instruction", "control_reg", "data">>
       /\ IsHexList(ret.out[3].data.data)
       /\ ParseHexList(ret.out[3].data.data)
            = IF Mosi(txn[1]) = 3 THEN MisoFrom(txn, 3) ELSE MosiFrom(txn, 3)

\* a READ transaction with two data events, whose miso bytes differ from
\* each other and from the mosi bytes, has been decoded
C1_Witness ==
    /\ TransactionEnded
    /\ Len(txn) = 4
    /\ Mosi(txn[1]) = 3
    /\ Miso(txn[3]) # Miso(txn[4])
    /\ MisoFrom(txn, 3) # MosiFrom(txn, 3)
    /\ ret.status = "list"
    /\ Len(ret.out) = 3

----------------------------------------------------------------------------
(* C2 *)

\* C2: a BIT_MODIFY transaction with an in-range address emits exactly
\* [instruction, control_reg, mask] for 3 events and exactly
\* [instruction, control_reg, mask, data] for 3 + k events (k >= 1); mask
\* spells the third event's mosi byte and data exactly the mosi bytes of
\* events 4..n in arrival order.
C2_BitModifyPayload ==
    (/\ TransactionEnded
     /\ Len(txn) >= 3
     /\ Mosi(txn[1]) = 5
     /\ AddressInRange(Mosi(txn[2])))
    => /\ ret.status = "list"
       /\ Kinds(ret.out) = IF Len(txn) = 3
                           THEN <<"instruction", "control_reg", "mask">>
                           ELSE <<"instruction", "control_reg", "mask", "data">>
       /\ IsHexList(ret.out[3].data.mask)
       /\ ParseHexList(ret.out[3].data.mask) = <<Mosi(txn[3])>>
       /\ Len(txn) > 3 =>
            /\ IsHexList(ret.out[4].data.data)
            /\ ParseHexList(ret.out[4].data.data) = MosiFrom(txn, 4)

\* a BIT_MODIFY transaction with a mask and two different data bytes has been decoded
C2_Witness ==
    /\ TransactionEnded
    /\ Len(txn) = 5
    /\ Mosi(txn[1]) = 5
    /\ Mosi(txn[3]) # Mosi(txn[4])
    /\ Mosi(txn[4]) # Mosi(txn[5])
    /\ ret.status = "list"
    /\ Len(ret.out) = 4

----------------------------------------------------------------------------
(* C3 *)

\* the last call was a byte exchange or an end marker delivered while Idle
\* (no start marker since construction or since the last end marker)
ArrivedWhileIdle ==
    \/ lastOp = "result" /\ lastMarker # "enable"
    \/ lastOp = "disable" /\ prevMarker # "enable"

----------------------------------------------------------------------------
(* C4 *)

----------------------------------------------------------------------------
(* C5 *)

\* C5: a transaction with at least 2 events and a valid instruction byte
\* whose second mosi byte has a high nibble of 8 or more fails with an
\* explicit AddressOutOfRange error, never with the failure of an unchecked
\* lookup.
C5_AddressOutOfRange ==
    (/\ TransactionEnded
     /\ Len(txn) >= 2
     /\ Mosi(txn[1]) \in InstructionCodes
     /\ ~AddressInRange(Mosi(txn[2])))
    => /\ ret.status = "raise"
       /\ ret.exc = "AddressOutOfRange"

----------------------------------------------------------------------------
(* C6 *)

\* C6: whenever decoding at an end marker fails (the first byte is none of
\* the six instruction codes, or the address byte is out of range), that
\* end marker emits no segment at all, not even those that precede the
\* point of failure.
C6_AllOrNothing ==
    (/\ EndMarkerProcessed
     /\ Len(txn) >= 1
     /\ \/ Mosi(txn[1]) \notin InstructionCodes
        \/ Len(txn) >= 2 /\ ~AddressInRange(Mosi(txn[2])))
    => /\ ret.status = "raise"
       /\ ret.out = <<>>

\* decoding failed at the address byte, after the instruction was classified
C6_Witness ==
    /\ EndMarkerProcessed
    /\ Len(txn) >= 3
    /\ Mosi(txn[1]) \in InstructionCodes
    /\ ~AddressInRange(Mosi(txn[2]))
    /\ ret.status = "raise"

----------------------------------------------------------------------------
(* C7 *)

\* C7: at an end marker whose most recent preceding marker is a start
\* marker, the result (segments or failure) is the decoding of exactly the
\* byte exchanges delivered between the two markers, whatever was delivered
\* before the start marker.
C7_TransactionIsolated ==
    TransactionEnded => ret = decode_frames(txn)

\* a transaction has been decoded whose start marker arrived while earlier
\* events were still buffered
C7_Witness ==
    /\ TransactionEnded
    /\ stale
    /\ Len(txn) >= 2
    /\ ret.status = "list"

----------------------------------------------------------------------------
(* C8 *)

\* C8 as stated: the list of segments emitted at an end marker has between
\* 0 and 3 elements.
C8_AtMostThreeSegments ==
    EndMarkerProcessed => Len(ret.out) <= 3

\* C8 as amended: the list of segments emitted at an end marker has between
\* 0 and 4 elements, and 4 only for a BIT_MODIFY transaction with at least
\* 4 buffered events.
C8_AtMostFourSegments ==
    EndMarkerProcessed =>
        /\ Len(ret.out) <= 4
        /\ Len(ret.out) = 4 => (Len(txn) >= 4 /\ Mosi(txn[1]) = 5)

\* a BIT_MODIFY transaction with five events has emitted four segments
C8_Witness ==
    /\ EndMarkerProcessed
    /\ Len(txn) = 5
    /\ Mosi(txn[1]) = 5
    /\ Len(ret.out) = 4

----------------------------------------------------------------------------
(* C9 *)

\* C9: with a valid instruction byte and an in-range address byte, a
\* transaction with 0 events emits an empty list, one with 1 event exactly
\* [instruction], and one with 2 events exactly [instruction, control_reg],
\* for every instruction including BIT_MODIFY.
C9_ShortTransactions ==
    TransactionEnded =>
        /\ Len(txn) = 0 => ret = Return(<<>>)
        /\ (Len(txn) = 1 /\ Mosi(txn[1]) \in InstructionCodes) =>
              /\ ret.status = "list"
              /\ Kinds(ret.out) = <<"instruction">>
        /\ (/\ Len(txn) = 2
            /\ Mosi(txn[1]) \in InstructionCodes
            /\ AddressInRange(Mosi(txn[2]))) =>
              /\ ret.status = "list"
              /\ Kinds(ret.out) = <<"instruction", "control_reg">>

\* a BIT_MODIFY transaction of exactly two events has been decoded
C9_Witness ==
    /\ TransactionEnded
    /\ Len(txn) = 2
    /\ Mosi(txn[1]) = 5
    /\ AddressInRange(Mosi(txn[2]))
    /\ ret.status = "list"

----------------------------------------------------------------------------
(* C10 *)

\* the instruction name the specification gives each code
NameOfCode(b) ==
    CASE b = 192 -> "RESET"
      [] b = 3   -> "READ"
      [] b = 2   -> "WRITE"
      [] b = 160 -> "READ_STATUS"
      [] b = 176 -> "RX_STATUS"
      [] b = 5   -> "BIT_MODIFY"

\* C10: the instruction is an exact match of the first event's mosi byte:
\* 0xC0 RESET, 0x03 READ, 0x02 WRITE, 0xA0 READ_STATUS, 0xB0 RX_STATUS,
\* 0x05 BIT_MODIFY; every other byte 0x00..0xFF fails with
\* UnknownInstruction (the ValueError of the Instructions constructor),
\* whatever the first event's miso byte.
C10_ExactInstructionMatch ==
    (EndMarkerProcessed /\ Len(txn) = 1) =>
        IF Mosi(txn[1]) \in InstructionCodes
        THEN /\ ret.status = "list"
             /\ Len(ret.out) = 1
             /\ ret.out[1].type = "instruction"
             /\ ret.out[1].data.instruction = NameOfCode(Mosi(txn[1]))
        ELSE /\ ret.status = "raise"
             /\ ret.exc = "ValueError"

\* a byte one bit away from READ_STATUS (0xA1) has been rejected, with a
\* miso byte that is itself an instruction code
C10_Witness ==
    /\ EndMarkerProcessed
    /\ Len(txn) = 1
    /\ Mosi(txn[1]) = 161
    /\ Miso(txn[1]) = 3
    /\ ret.status = "raise"

----------------------------------------------------------------------------
(* C11 *)

----------------------------------------------------------------------------
(* C12 *)

\* C12: whatever the state of the Session Buffer, a record whose type is
\* none of start marker, byte exchange or end marker is rejected with an
\* error and emits no segments.
C12_UnknownTypeRejected ==
    /\ ENABLED OtherFrame
    /\ lastOp = "other" =>
          /\ ret.status = "raise"
          /\ ret.exc = "RuntimeError"
          /\ ret.out = <<>>

\* an unrecognized record has been rejected inside an open transaction with
\* a non-empty buffer
C12_Witness ==
    /\ lastOp = "other"
    /\ lastMarker = "enable"
    /\ Len(frames) >= 2
    /\ ret.status = "raise"

----------------------------------------------------------------------------
(* C13 *)

\* C13 as stated: if a ProtocolViolation is raised between a start marker
\* and its end marker, that end marker emits no segments for the events
\* buffered in the transaction.
C13_ViolationFatal ==
    (TransactionEnded /\ violation) => ret.out = <<>>

\* C13 as amended: a ProtocolViolation raised between a start marker and its
\* end marker does not invalidate the transaction: the buffered events are
\* kept, and when they decode (valid instruction, in-range address) the end
\* marker emits segments that cover all of them, from the first event of the
\* transaction to the last.
C13_ViolationLeavesTransaction ==
    (/\ TransactionEnded
     /\ violation
     /\ Len(txn) >= 1
     /\ Mosi(txn[1]) \in InstructionCodes
     /\ Len(txn) >= 2 => AddressInRange(Mosi(txn[2])))
    => /\ ret.status = "list"
       /\ ret.out # <<>>
       /\ ret.out[1].start_time = txn[1].start_time
       /\ ret.out[Len(ret.out)].end_time = txn[Len(txn)].end_time

\* a transaction in which an unrecognized record was rejected has been
\* decoded into three segments
C13_Witness ==
    /\ TransactionEnded
    /\ violation
    /\ Len(txn) >= 3
    /\ ret.status = "list"
    /\ Len(ret.out) >= 3

----------------------------------------------------------------------------
(* C14 *)

\* position of a segment type in the order Instruction, ControlRegister, Mask, Data
Rank(type) ==
    CASE type = "instruction" -> 1
      [] type = "control_reg" -> 2
      [] type = "mask"        -> 3
      [] type = "data"        -> 4

\* C14: in every emitted list the segments appear in the order Instruction,
\* ControlRegister, Mask, Data with at most one of each kind; a
\* ControlRegister is never emitted without an Instruction before it, and a
\* Mask or Data never without a ControlRegister before it.
C14_SegmentOrder ==
    EndMarkerProcessed =>
        /\ \A i, j \in 1 .. Len(ret.out) :
              i < j => Rank(ret.out[i].type) < Rank(ret.out[j].type)
        /\ \A i \in 1 .. Len(ret.out) :
              /\ ret.out[i].type = "control_reg" =>
                    \E j \in 1 .. (i - 1) : ret.out[j].type = "instruction"
              /\ ret.out[i].type \in {"mask", "data"} =>
                    \E j \in 1 .. (i - 1) : ret.out[j].type = "control_reg"

\* a list with all four kinds of segment has been emitted
C14_Witness ==
    /\ EndMarkerProcessed
    /\ ret.status = "list"
    /\ Kinds(ret.out) = <<"instruction", "control_reg", "mask", "data">>

----------------------------------------------------------------------------
(* C15 *)

\* index of the first data-phase event
FirstDataEvent == IF Mosi(txn[1]) = 5 THEN 4 ELSE 3

\* C15: every emitted segment spans the events it summarizes: Instruction
\* exactly event 1, ControlRegister exactly event 2, Mask exactly event 3,
\* Data from the start of the first data-phase event (event 3, or event 4
\* for BIT_MODIFY) to the end of the last event; so the segments of one
\* list do not overlap and do not go back in time.
C15_SegmentTimes ==
    (EndMarkerProcessed /\ ret.status = "list") =>
        /\ \A i \in 1 .. Len(ret.out) :
              LET seg == ret.out[i]
              IN  CASE seg.type = "instruction" ->
                         /\ seg.start_time = txn[1].start_time
                         /\ seg.end_time = txn[1].end_time
                    [] seg.type = "control_reg" ->
                         /\ seg.start_time = txn[2].start_time
                         /\ seg.end_time = txn[2].end_time
                    [] seg.type = "mask" ->
                         /\ seg.start_time = txn[3].start_time
                         /\ seg.end_time = txn[3].end_time
                    [] seg.type = "data" ->
                         /\ seg.start_time = txn[FirstDataEvent].start_time
                         /\ seg.end_time = txn[Len(txn)].end_time
        /\ \A i, j \in 1 .. Len(ret.out) :
              i < j => ret.out[i].end_time <= ret.out[j].start_time

\* a BIT_MODIFY transaction whose data phase spans two events has been decoded
C15_Witness ==
    /\ EndMarkerProcessed
    /\ Len(txn) = 5
    /\ Mosi(txn[1]) = 5
    /\ ret.status = "list"
    /\ Len(ret.out) = 4
    /\ ret.out[4].start_time = txn[4].start_time
    /\ ret.out[4].end_time = txn[5].end_time

----------------------------------------------------------------------------
(* C16 *)

\* C16: for every second byte a in 0x00..0x7F, under every instruction, the
\* lookup succeeds and the ControlRegister name is
\* Table[a & 0x0F][(a >> 4) & 0x0F]; 0x00 gives RXF0SIDH, every address
\* with low nibble 0xE gives CANSTAT and with low nibble 0xF CANCTRL.
C16_RegisterResolution ==
    (EndMarkerProcessed /\ Len(txn) = 2 /\ Mosi(txn[2]) <= 127) =>
        LET a == Mosi(txn[2])
        IN  /\ ret.status = "list"
            /\ Len(ret.out) = 2
            /\ ret.out[2].type = "control_reg"
            /\ ret.out[2].data.control_reg = REGISTER_MAP[(a % 16) + 1][(a \div 16) + 1]
            /\ a = 0 => ret.out[2].data.control_reg = "RXF0SIDH"
            /\ a % 16 = 14 => ret.out[2].data.control_reg = "CANSTAT"
            /\ a % 16 = 15 => ret.out[2].data.control_reg = "CANCTRL"

\* address 0x7E, the last column of the CANSTAT row, has been resolved
C16_Witness ==
    /\ EndMarkerProcessed
    /\ Len(txn) = 2
    /\ Mosi(txn[2]) = 126
    /\ ret.status = "list"
    /\ ret.out[2].data.control_reg = "CANSTAT"

----------------------------------------------------------------------------
(* C17 *)

\* C17: register resolution is applied to the second event's mosi byte under
\* every instruction: a transaction of 2 events, RESET, READ_STATUS and
\* RX_STATUS included, emits [instruction, control_reg] when the second
\* byte is in range and fails as a whole, emitting nothing, when its high
\* nibble is 8 or more.
C17_ResolutionForEveryInstruction ==
    (/\ EndMarkerProcessed
     /\ Len(txn) = 2
     /\ Mosi(txn[1]) \in InstructionCodes)
    => IF AddressInRange(Mosi(txn[2]))
       THEN /\ ret.status = "list"
            /\ Kinds(ret.out) = <<"instruction", "control_reg">>
       ELSE /\ ret.status = "raise"
            /\ ret.out = <<>>

\* an RX_STATUS transaction whose second byte is in range has emitted a
\* ControlRegister segment
C17_Witness ==
    /\ EndMarkerProcessed
    /\ Len(txn) = 2
    /\ Mosi(txn[1]) = 176
    /\ AddressInRange(Mosi(txn[2]))
    /\ ret.status = "list"
    /\ Kinds(ret.out) = <<"instruction", "control_reg">>

----------------------------------------------------------------------------
(* C18 *)

\* C18: after any sequence of input events the Session Buffer is exactly
\* the sequence of byte exchanges delivered since the most recent start
\* marker (since construction when there has been none), in arrival order,
\* nothing dropped, duplicated or reordered; and what an end marker returns
\* is the decoding of that same sequence.
C18_BufferIsArrivalOrder ==
    /\ frames = txn
    /\ \A i \in 1 .. (Len(frames) - 1) : frames[i].end_time < frames[i + 1].start_time
    /\ EndMarkerProcessed => ret = decode_frames(txn)

\* three byte exchanges are buffered in arrival order after a start marker
\* that discarded earlier ones
C18_Witness ==
    /\ lastOp = "result"
    /\ lastMarker = "enable"
    /\ stale
    /\ Len(frames) = 3
    /\ Mosi(frames[1]) # Mosi(frames[3])

----------------------------------------------------------------------------
(* C19 *)

\* C19: processing a start marker or a byte exchange returns nothing: no
\* segment and no decode error (UnknownInstruction, AddressOutOfRange), even
\* when the bytes buffered so far can no longer decode.
C19_NothingBeforeEndMarker ==
    lastOp \in {"enable", "result"} => ret = ReturnNone

\* a third byte exchange has been accepted silently although the first byte
\* is no instruction and the second no in-range address
C19_Witness ==
    /\ lastOp = "result"
    /\ Len(frames) = 3
    /\ Mosi(frames[1]) \notin InstructionCodes
    /\ ~AddressInRange(Mosi(frames[2]))
    /\ ret = ReturnNone

----------------------------------------------------------------------------
(* C20 *)

\* C20: a rejected input leaves the Session Buffer unchanged: a call that
\* raises, for an unrecognized record type or for an end marker whose
\* decoding fails, leaves the buffered sequence exactly as it was.
C20_RejectedInputKeepsBuffer ==
    [][(lastOp' \in {"other", "disable"} /\ ret'.status = "raise") => frames' = frames]_vars

\* an end marker has failed to decode a buffer of three events, which is
\* still there
C20_Witness ==
    /\ EndMarkerProcessed
    /\ ret.status = "raise"
    /\ Len(txn) = 3
    /\ Len(frames) = 3

====
